---------------------------- MODULE Spec2Model ----------------------------
(***************************************************************************)
(* Futures/spot deviation scanner (src/src/bot.py, src/src/exchanges.py,   *)
(* src/src/config.py).                                                     *)
(*                                                                         *)
(* Conventions of the model                                                *)
(*   - a Python str is a sequence of one-character strings, so that        *)
(*     upper(), startswith(), slicing and the `in` substring test are      *)
(*     computed and not assumed;                                           *)
(*   - a Python float that carries a percentage, a price or a number of    *)
(*     hours is an integer number of hundredths (1.0 % = 100, 2 h = 200);  *)
(*     the inputs are chosen so that every division in the code is exact;  *)
(*     a float read from a text (float(text)) is a record that is such a   *)
(*     number, an infinity or NaN;                                         *)
(*   - datetime.now() is the variable now, in hundredths of an hour;       *)
(*   - a Python dict is a function on its key set; the one dict whose      *)
(*     iteration order is observable (the result of get_all_deviations) is *)
(*     a sequence of <<key, value>> pairs in insertion order.              *)
(***************************************************************************)
EXTENDS Integers, Sequences, FiniteSets, TLC

(***************************************************************************)
(* Bounds of the model.                                                    *)
(***************************************************************************)
MaxBaseLen == 3

MaxTime == 3

MaxTickers == 2

(***************************************************************************)
(* Strings.                                                                *)
(***************************************************************************)
LowerCase == <<"a","b","c","d","e","f","g","h","i","j","k","l","m",
               "n","o","p","q","r","s","t","u","v","w","x","y","z">>

UpperCase == <<"A","B","C","D","E","F","G","H","I","J","K","L","M",
               "N","O","P","Q","R","S","T","U","V","W","X","Y","Z">>

\* str.upper() on one character
UpperChar(c) ==
    IF \E i \in 1..Len(LowerCase) : LowerCase[i] = c
    THEN UpperCase[CHOOSE i \in 1..Len(LowerCase) : LowerCase[i] = c]
    ELSE c

\* str.upper()
upper(s) == [i \in 1..Len(s) |-> UpperChar(s[i])]

\* str.startswith(p)
startswith(s, p) == Len(s) >= Len(p) /\ SubSeq(s, 1, Len(p)) = p

\* s[n:]
DropPrefix(s, n) == SubSeq(s, n + 1, Len(s))

\* `sub in s` for strings
Contains(s, sub) ==
    \E i \in 1..(Len(s) - Len(sub) + 1) : SubSeq(s, i, i + Len(sub) - 1) = sub

S1000 == <<"1","0","0","0">>

S10000 == <<"1","0","0","0","0">>

SUP == <<"U","P">>

SDOWN == <<"D","O","W","N">>

(***************************************************************************)
(* ExchangeManager._normalize_coin_name: the two prefix tests are two      *)
(* independent `if`s, "1000" first.                                        *)
(***************************************************************************)
normalize_coin_name(coin) ==
    LET c1 == upper(coin)
        c2 == IF startswith(c1, S1000) THEN DropPrefix(c1, 4) ELSE c1
        c3 == IF startswith(c2, S10000) THEN DropPrefix(c2, 5) ELSE c2
    IN  c3

(***************************************************************************)
(* float(text) and int(text) on the decimal forms the inputs use:          *)
(* [+-]digits[.digits], "inf" and "nan".  A float is returned in           *)
(* hundredths; at most two fractional digits are read exactly (the inputs  *)
(* never carry more).                                                      *)
(***************************************************************************)
Digits == <<"0","1","2","3","4","5","6","7","8","9">>

IsDigit(c) == \E i \in 1..Len(Digits) : Digits[i] = c

DigitVal(c) == (CHOOSE i \in 1..Len(Digits) : Digits[i] = c) - 1

AllDigits(s) == \A i \in 1..Len(s) : IsDigit(s[i])

RECURSIVE NatVal(_)
NatVal(s) ==
    IF Len(s) = 0 THEN 0
    ELSE NatVal(SubSeq(s, 1, Len(s) - 1)) * 10 + DigitVal(s[Len(s)])

\* the fractional digits of a float, in hundredths
FracVal(s) ==
    IF Len(s) = 0 THEN 0
    ELSE IF Len(s) = 1 THEN DigitVal(s[1]) * 10
    ELSE DigitVal(s[1]) * 10 + DigitVal(s[2])

HasSign(s) == Len(s) > 0 /\ s[1] \in {"-", "+"}

Unsigned(s) == IF HasSign(s) THEN DropPrefix(s, 1) ELSE s

SignOf(s) == IF Len(s) > 0 /\ s[1] = "-" THEN -1 ELSE 1

DotAt(s) == IF \E i \in 1..Len(s) : s[i] = "."
            THEN CHOOSE i \in 1..Len(s) : s[i] = "." /\ \A j \in 1..(i-1) : s[j] # "."
            ELSE 0

\* float(text): kind "num" (value in hundredths), "inf", "nan", or "error"
\* (ValueError)
ParseFloat(text) ==
    LET u == Unsigned(text)
        d == DotAt(u)
        ip == IF d = 0 THEN u ELSE SubSeq(u, 1, d - 1)
        fp == IF d = 0 THEN <<>> ELSE SubSeq(u, d + 1, Len(u))
    IN  IF u = <<"i","n","f">> THEN [kind |-> "inf", value |-> SignOf(text)]
        ELSE IF u = <<"n","a","n">> THEN [kind |-> "nan", value |-> 0]
        ELSE IF Len(ip) + Len(fp) > 0 /\ AllDigits(ip) /\ AllDigits(fp) /\ Len(fp) <= 2
             THEN [kind |-> "num",
                   value |-> SignOf(text) * (NatVal(ip) * 100 + FracVal(fp))]
        ELSE [kind |-> "error", value |-> 0]

\* int(text): kind "num" or "error" (ValueError)
ParseInt(text) ==
    LET u == Unsigned(text)
    IN  IF Len(u) > 0 /\ AllDigits(u)
        THEN [kind |-> "num", value |-> SignOf(text) * NatVal(u)]
        ELSE [kind |-> "error", value |-> 0]

(***************************************************************************)
(* datetime.isoformat() / datetime.fromisoformat(): the registry holds the *)
(* expiry as text, and every read parses it back.                          *)
(***************************************************************************)
isoformat(t) == <<"iso", t>>

fromisoformat(s) == s[2]

\* del d[k]
DictDel(d, k) == [x \in DOMAIN d \ {k} |-> d[x]]

\* d[k] = v
DictSet(d, k, v) == [x \in DOMAIN d \cup {k} |-> IF x = k THEN v ELSE d[x]]

EmptyDict == [x \in {} |-> 0]

(***************************************************************************)
(* State.                                                                  *)
(*   now          datetime.now()                                           *)
(*   muted_coins  bot.muted_coins: coin -> isoformat(expiry)               *)
(*   muted_file   data/muted_coins.json as last written                    *)
(*   last         the Telegram update handled by the latest step and the   *)
(*                reply it was given (none after any other step)           *)
(*   call         the direct call of a function made by the latest step,   *)
(*                with its argument and return value (none after any other *)
(*                step)                                                    *)
(*   last_mute    history: coin -> expiry set by the most recent accepted  *)
(*                /mute of the coin that no unmute button has followed     *)
(*   input        the argument a specification of one function draws at    *)
(*                the start (unused by the others)                         *)
(*   settings     bot.settings                                             *)
(*   settings_file  data/settings.json as last written                     *)
(*   cycle        what the check cycle run by the latest step obtained and *)
(*                sent (none after any other step)                         *)
(*   waiting_for  context.user_data["waiting_for"] of the one user ("none" *)
(*                when the key is absent)                                  *)
(*   jobs         the jobs of the scheduler, each with its id and period   *)
(***************************************************************************)
VARIABLES now, muted_coins, muted_file, last, call, last_mute, input,
          settings, settings_file, cycle, waiting_for, jobs

vars == <<now, muted_coins, muted_file, last, call, last_mute, input,
          settings, settings_file, cycle, waiting_for, jobs>>

cfgVars == <<settings, settings_file, waiting_for, jobs>>

\* a float that is a number (in hundredths); the others are ParseFloat's
\* [kind |-> "inf", value |-> sign] and [kind |-> "nan", value |-> 0]
Num(v) == [kind |-> "num", value |-> v]

\* x >= f for a number x
AtLeast(x, f) ==
    \/ f.kind = "num" /\ x >= f.value
    \/ f.kind = "inf" /\ f.value < 0

\* f <= 0
NotPositive(f) ==
    \/ f.kind = "num" /\ f.value <= 0
    \/ f.kind = "inf" /\ f.value < 0

SBTC == <<"B","T","C">>

Sbtc == <<"b","t","c">>

SETH == <<"E","T","H">>

\* the texts typed after /mute
MuteArgs ==
    { <<>>, <<Sbtc>>, <<Sbtc, <<"1">>, <<"x">> >>,
      <<Sbtc, <<"1">> >>, <<SBTC, <<"2">> >>, <<SETH, <<"1">> >>,
      <<Sbtc, <<"0">> >>, <<SETH, <<"-","1">> >>, <<Sbtc, <<"a","b","c">> >>,
      <<Sbtc, <<"i","n","f">> >>, <<SETH, <<"n","a","n">> >> }

\* the coins an unmute button or a deviation can name
Coins == {SBTC, SETH}

NoLast == [update |-> [kind |-> "none", args |-> <<>>],
           reply  |-> [kind |-> "none", items |-> {}]]

NoCall == [fn |-> "none", arg |-> <<>>, ret |-> FALSE, saved |-> FALSE]

NoCycle == [outcome |-> "none", deviations |-> <<>>, alerts |-> <<>>, sent |-> <<>>,
            asked |-> <<>>, failing |-> {}]

\* config.DEFAULT_SETTINGS
DEFAULT_SETTINGS ==
    [threshold_percent |-> Num(100),
     check_interval_seconds |-> 60,
     binance_enabled |-> TRUE,
     bybit_enabled |-> TRUE,
     gate_enabled |-> TRUE,
     chat_ids |-> <<>>]

\* is_muted with the expiry test `now > until`
is_muted_late(coin, muted, t) ==
    IF coin \notin DOMAIN muted
    THEN [ret |-> FALSE, muted |-> muted, saved |-> FALSE]
    ELSE IF t > fromisoformat(muted[coin])
         THEN [ret |-> FALSE, muted |-> DictDel(muted, coin), saved |-> TRUE]
         ELSE [ret |-> TRUE, muted |-> muted, saved |-> FALSE]

(***************************************************************************)
(* bot.is_muted: the value returned, the registry it leaves and whether    *)
(* it wrote the file.                                                      *)
(***************************************************************************)
is_muted(coin, muted, t) ==
    IF coin \notin DOMAIN muted
    THEN [ret |-> FALSE, muted |-> muted, saved |-> FALSE]
    ELSE IF t >= fromisoformat(muted[coin])
         THEN [ret |-> FALSE, muted |-> DictDel(muted, coin), saved |-> TRUE]
         ELSE [ret |-> TRUE, muted |-> muted, saved |-> FALSE]

\* clean_expired_mutes that deletes without writing the file
clean_expired_mutes_nosave(muted, t) ==
    LET expired == {c \in DOMAIN muted : fromisoformat(muted[c]) < t}
    IN  [muted |-> [c \in DOMAIN muted \ expired |-> muted[c]],
         saved |-> FALSE]

(***************************************************************************)
(* bot.clean_expired_mutes: an entry is dropped when its expiry is         *)
(* strictly before now.                                                    *)
(***************************************************************************)
clean_expired_mutes(muted, t) ==
    LET expired == {c \in DOMAIN muted : fromisoformat(muted[c]) < t}
    IN  [muted |-> [c \in DOMAIN muted \ expired |-> muted[c]],
         saved |-> expired # {}]

(***************************************************************************)
(* bot.show_muted_handler: prune, then list every entry left with its      *)
(* remaining whole hours and minutes.                                      *)
(***************************************************************************)
MutedItems(muted, t) ==
    { LET remaining == fromisoformat(muted[c]) - t
      IN  <<c, remaining \div 100, ((remaining % 100) * 60) \div 100>>
      : c \in DOMAIN muted }

show_muted_handler(muted, file, t) ==
    LET c == clean_expired_mutes(muted, t)
    IN  [muted |-> c.muted,
         file  |-> IF c.saved THEN c.muted ELSE file,
         reply |-> IF c.muted = EmptyDict
                   THEN [kind |-> "muted_empty", items |-> {}]
                   ELSE [kind |-> "muted_list", items |-> MutedItems(c.muted, t)]]

\* callback "show_muted"
ButtonShowMuted ==
    LET r == show_muted_handler(muted_coins, muted_file, now)
    IN  /\ muted_coins' = r.muted
        /\ muted_file' = r.file
        /\ last' = [update |-> [kind |-> "show_muted", args |-> <<>>], reply |-> r.reply]
        /\ call' = NoCall
        /\ cycle' = NoCycle
        /\ UNCHANGED <<now, last_mute, input, cfgVars>>

\* the unmute button deleting only an entry that has not expired yet
ButtonUnmute_OnlyLive(coin) ==
    LET had == coin \in DOMAIN muted_coins /\ fromisoformat(muted_coins[coin]) > now
        m1 == IF had THEN DictDel(muted_coins, coin) ELSE muted_coins
        f1 == IF had THEN m1 ELSE muted_file
        r == show_muted_handler(m1, f1, now)
    IN  /\ muted_coins' = r.muted
        /\ muted_file' = r.file
        /\ last' = [update |-> [kind |-> "unmute", args |-> <<coin>>], reply |-> r.reply]
        /\ last_mute' = DictDel(last_mute, coin)
        /\ call' = NoCall
        /\ cycle' = NoCycle
        /\ UNCHANGED <<now, input, cfgVars>>

\* callback "unmute_<coin>": delete and save, then show the list again
ButtonUnmute(coin) ==
    LET had == coin \in DOMAIN muted_coins
        m1 == IF had THEN DictDel(muted_coins, coin) ELSE muted_coins
        f1 == IF had THEN m1 ELSE muted_file
        r == show_muted_handler(m1, f1, now)
    IN  /\ muted_coins' = r.muted
        /\ muted_file' = r.file
        /\ last' = [update |-> [kind |-> "unmute", args |-> <<coin>>], reply |-> r.reply]
        /\ last_mute' = DictDel(last_mute, coin)
        /\ call' = NoCall
        /\ cycle' = NoCycle
        /\ UNCHANGED <<now, input, cfgVars>>

\* the validation of /mute with the test `hours < 0`
MuteOutcome_AcceptZero(args) ==
    IF Len(args) # 2 THEN "mute_usage"
    ELSE LET p == ParseFloat(args[2])
         IN  IF p.kind = "error" THEN "mute_bad_hours"
             ELSE IF p.kind \in {"num", "inf"} /\ p.value < 0 THEN "mute_bad_hours"
             ELSE IF p.kind \in {"inf", "nan"} THEN "exception"
             ELSE "mute_ok"

(***************************************************************************)
(* bot.mute_command.  "rejected" is the ValueError branch and the usage    *)
(* branch; float("inf") and float("nan") pass the `hours <= 0` test and    *)
(* timedelta(hours=hours) then raises outside the try.                     *)
(***************************************************************************)
MuteOutcome(args) ==
    IF Len(args) # 2 THEN "mute_usage"
    ELSE LET p == ParseFloat(args[2])
         IN  IF p.kind = "error" THEN "mute_bad_hours"
             ELSE IF p.kind \in {"num", "inf"} /\ p.value <= 0 THEN "mute_bad_hours"
             ELSE IF p.kind \in {"inf", "nan"} THEN "exception"
             ELSE "mute_ok"

\* /mute that keeps the expiry of a coin that already has an entry
mute_command_keep(args) ==
    LET outcome == MuteOutcome(args)
        coin == upper(args[1])
        until == now + ParseFloat(args[2]).value
    IN  /\ last' = [update |-> [kind |-> "mute", args |-> args],
                    reply  |-> [kind |-> outcome, items |-> {}]]
        /\ IF outcome = "mute_ok" /\ coin \notin DOMAIN muted_coins
           THEN /\ muted_coins' = DictSet(muted_coins, coin, isoformat(until))
                /\ muted_file' = muted_coins'
                /\ last_mute' = DictSet(last_mute, coin, until)
           ELSE UNCHANGED <<muted_coins, muted_file, last_mute>>
        /\ call' = NoCall
        /\ cycle' = NoCycle
        /\ UNCHANGED <<now, input, cfgVars>>

mute_command(args) ==
    LET outcome == MuteOutcome(args)
        coin == upper(args[1])
        until == now + ParseFloat(args[2]).value
    IN  /\ last' = [update |-> [kind |-> "mute", args |-> args],
                    reply  |-> [kind |-> outcome, items |-> {}]]
        /\ IF outcome = "mute_ok"
           THEN /\ muted_coins' = DictSet(muted_coins, coin, isoformat(until))
                /\ muted_file' = muted_coins'
                /\ last_mute' = DictSet(last_mute, coin, until)
           ELSE UNCHANGED <<muted_coins, muted_file, last_mute>>
        /\ call' = NoCall
        /\ cycle' = NoCycle
        /\ UNCHANGED <<now, input, cfgVars>>

\* a direct call of is_muted(coin)
IsMutedCall(coin) ==
    LET r == is_muted(coin, muted_coins, now)
    IN  /\ muted_coins' = r.muted
        /\ muted_file' = IF r.saved THEN r.muted ELSE muted_file
        /\ call' = [fn |-> "is_muted", arg |-> coin, ret |-> r.ret, saved |-> r.saved]
        /\ last' = NoLast
        /\ cycle' = NoCycle
        /\ UNCHANGED <<now, last_mute, input, cfgVars>>

\* an hour passes
Tick ==
    /\ now < MaxTime * 100
    /\ now' = now + 100
    /\ last' = NoLast
    /\ call' = NoCall
    /\ cycle' = NoCycle
    /\ UNCHANGED <<muted_coins, muted_file, last_mute, input, cfgVars>>

\* the state once bot.py is imported, with an empty data directory
InitBot ==
    /\ now = 0
    /\ muted_coins = EmptyDict
    /\ muted_file = EmptyDict
    /\ last = NoLast
    /\ call = NoCall
    /\ last_mute = EmptyDict
    /\ settings = DEFAULT_SETTINGS
    /\ settings_file = DEFAULT_SETTINGS
    /\ cycle = NoCycle
    /\ waiting_for = "none"
    /\ jobs = <<[id |-> "price_checker", seconds |-> DEFAULT_SETTINGS.check_interval_seconds]>>

Init ==
    /\ InitBot
    /\ input = <<>>

(***************************************************************************)
(* The mute registry and its four operations.                              *)
(***************************************************************************)
NextMute ==
    \/ Tick
    \/ \E args \in MuteArgs : mute_command(args)
    \/ \E c \in Coins : ButtonUnmute(c)
    \/ ButtonShowMuted
    \/ \E c \in Coins : IsMutedCall(c)

SpecMute == Init /\ [][NextMute]_vars

(***************************************************************************)
(* Claims about the mute registry (checked under SpecMute).                *)
(***************************************************************************)
Expiry(muted, c) == fromisoformat(muted[c])

ListedCoins == {it[1] : it \in last.reply.items}

\* C4: is_muted(coin) returns false when there is no entry; when the entry's
\* expiry is <= now it deletes that entry (and only that entry) and returns
\* false; otherwise it returns true and leaves the registry unchanged.  So
\* the answer is true iff an entry exists with expiry strictly in the future,
\* and no call leaves an expired entry of the queried coin behind.
C4_IsMutedContract ==
    [][\A c \in Coins : IsMutedCall(c) =>
        LET had == c \in DOMAIN muted_coins
            expired == had /\ Expiry(muted_coins, c) <= now
        IN  /\ ~had => (call'.ret = FALSE /\ muted_coins' = muted_coins)
            /\ expired =>
                  /\ call'.ret = FALSE
                  /\ DOMAIN muted_coins' = DOMAIN muted_coins \ {c}
                  /\ \A d \in DOMAIN muted_coins' : muted_coins'[d] = muted_coins[d]
            /\ (had /\ ~expired) => (call'.ret = TRUE /\ muted_coins' = muted_coins)
            /\ call'.ret = (had /\ Expiry(muted_coins, c) > now)
            /\ c \in DOMAIN muted_coins' => Expiry(muted_coins', c) > now
      ]_vars

\* C4 witness: a call found an expired entry, deleted it and answered false.
C4_Witness ==
    /\ call.fn = "is_muted"
    /\ call.ret = FALSE
    /\ call.saved
    /\ call.arg \notin DOMAIN muted_coins

\* C5: after the muted list is shown, no entry with expiry <= now remains in
\* the registry, and no listed coin is one for which is_muted would answer
\* false at the same instant.
C5_ListPrunesAllExpired ==
    last.update.kind = "show_muted" =>
        /\ \A c \in DOMAIN muted_coins : Expiry(muted_coins, c) > now
        /\ \A c \in ListedCoins : is_muted(c, muted_coins, now).ret

\* the hours of a /mute whose duration is a finite number > 0, else 0
AcceptedHours(args) ==
    IF Len(args) = 2 /\ ParseFloat(args[2]).kind = "num" /\ ParseFloat(args[2]).value > 0
    THEN ParseFloat(args[2]).value
    ELSE 0

\* C6: /mute coin hours with hours > 0 sets the coin's expiry to now + hours,
\* overwriting an existing entry of the coin and touching no other; from then
\* on (until an unmute of the coin) is_muted(coin) is true at every instant
\* before that expiry, false once time is past it, and the coin is then absent
\* from the muted list.
C6_MuteSetsExpiry ==
    /\ [][\A args \in MuteArgs : (mute_command(args) /\ AcceptedHours(args) > 0) =>
            LET coin == upper(args[1])
            IN  /\ DOMAIN muted_coins' = DOMAIN muted_coins \cup {coin}
                /\ Expiry(muted_coins', coin) = now + AcceptedHours(args)
                /\ \A d \in DOMAIN muted_coins \ {coin} : muted_coins'[d] = muted_coins[d]
          ]_vars
    /\ [](\A c \in DOMAIN last_mute :
            /\ (call.fn = "is_muted" /\ call.arg = c /\ now < last_mute[c]) => call.ret = TRUE
            /\ (call.fn = "is_muted" /\ call.arg = c /\ now > last_mute[c]) => call.ret = FALSE
            /\ (last.update.kind = "show_muted" /\ now > last_mute[c]) => c \notin ListedCoins)

\* C6 witness: a coin was muted, time went past the expiry of its latest
\* mute, and is_muted then deleted the entry and answered false.
C6_Witness ==
    /\ call.fn = "is_muted"
    /\ call.arg \in DOMAIN last_mute
    /\ now > last_mute[call.arg]
    /\ call.ret = FALSE
    /\ call.saved

\* whether a /mute is one the claim calls invalid: a wrong number of
\* arguments, an unparsable duration, or a duration <= 0
InvalidMute(args) ==
    \/ Len(args) # 2
    \/ ParseFloat(args[2]).kind = "error"
    \/ (ParseFloat(args[2]).kind = "num" /\ ParseFloat(args[2]).value <= 0)

\* C7: an invalid /mute is answered with a failure reply and leaves the
\* registry, in memory and on disk, exactly as it was.
C7_InvalidMuteRejected ==
    [][\A args \in MuteArgs : (mute_command(args) /\ InvalidMute(args)) =>
          /\ last'.reply.kind \in {"mute_usage", "mute_bad_hours"}
          /\ muted_coins' = muted_coins
          /\ muted_file' = muted_file
      ]_vars

\* C7 witness: a /mute with a bad duration was rejected while the coin it
\* names has an entry.
C7_Witness ==
    /\ last.update.kind = "mute"
    /\ last.reply.kind = "mute_bad_hours"
    /\ upper(last.update.args[1]) \in DOMAIN muted_coins

\* C8 as claimed: the unmute button removes the coin's entry and leaves every
\* other coin's entry and expiry unchanged.
C8_UnmuteTouchesOnlyItsCoin ==
    [][\A c \in Coins : ButtonUnmute(c) =>
          /\ c \notin DOMAIN muted_coins'
          /\ \A d \in DOMAIN muted_coins \ {c} :
                d \in DOMAIN muted_coins' /\ muted_coins'[d] = muted_coins[d]
      ]_vars

\* C8 amended: the unmute button removes the coin's entry whether or not it
\* has expired or exists, so that is_muted(coin) is false right after; of the
\* other coins it keeps, unchanged, every entry whose expiry is >= now and
\* removes every entry whose expiry is < now (the list it shows next prunes
\* them); it adds no entry.
C8_UnmuteAmended ==
    [][\A c \in Coins : ButtonUnmute(c) =>
          /\ c \notin DOMAIN muted_coins'
          /\ ~ is_muted(c, muted_coins', now').ret
          /\ DOMAIN muted_coins' \subseteq DOMAIN muted_coins
          /\ \A d \in DOMAIN muted_coins \ {c} :
                IF Expiry(muted_coins, d) >= now
                THEN d \in DOMAIN muted_coins' /\ muted_coins'[d] = muted_coins[d]
                ELSE d \notin DOMAIN muted_coins'
      ]_vars

\* C8 witness: an unmute button was handled after time had advanced, and
\* the list shown next still holds another coin's entry.
C8_Witness ==
    /\ last.update.kind = "unmute"
    /\ last.reply.kind = "muted_list"
    /\ now > 0
    /\ muted_coins # EmptyDict

\* C26: after every operation that changes the mute registry the persisted
\* table equals the registry in memory.
C26_FileEqualsRegistry ==
    /\ muted_file = muted_coins
    /\ [][muted_coins' # muted_coins => muted_file' = muted_coins']_vars

\* the list was shown after the entry of a coin had expired and been
\* removed, while the entry of another coin remains
C26_Witness ==
    /\ last.update.kind = "show_muted"
    /\ muted_coins # EmptyDict
    /\ muted_file = muted_coins
    /\ \E c \in DOMAIN last_mute : c \notin DOMAIN muted_coins /\ last_mute[c] < now

(***************************************************************************)
(* The symbol normalizer on its own: every raw symbol made of an optional  *)
(* "1000" or "10000" prefix and a short name.                              *)
(***************************************************************************)
NormAlphabet == {"p", "E", "0", "1"}

RECURSIVE StringsUpTo(_, _)
StringsUpTo(alphabet, n) ==
    IF n = 0 THEN {<<>>}
    ELSE LET shorter == StringsUpTo(alphabet, n - 1)
         IN  shorter \cup {Append(w, a) : w \in shorter, a \in alphabet}

BaseNames == StringsUpTo(NormAlphabet, MaxBaseLen) \ {<<>>}

RawSymbols == {p \o b : p \in {<<>>, S1000, S10000}, b \in BaseNames}

NormalizeCall ==
    /\ call' = [fn |-> "normalize", arg |-> input,
                ret |-> normalize_coin_name(input), saved |-> FALSE]
    /\ UNCHANGED <<now, muted_coins, muted_file, last, last_mute, input, cfgVars, cycle>>

InitNorm ==
    /\ InitBot
    /\ input \in RawSymbols

NextNorm == NormalizeCall

SpecNorm == InitNorm /\ [][NextNorm]_vars

\* a name that starts with a letter
StartsWithLetter(x) == Len(x) > 0 /\ ~ IsDigit(x[1])

\* C9: for every base name X, normalize("1000" + X) and normalize("10000" + X)
\* are both uppercase(X): one prefix is stripped, the longer one first.
C9_NormalizeStripsOnePrefix ==
    call.fn = "normalize" =>
        \A x \in BaseNames :
            (StartsWithLetter(x) /\ call.arg \in {S1000 \o x, S10000 \o x})
                => call.ret = upper(x)

(***************************************************************************)
(* The price feeds.  A ticker is one entry of fetch_tickers() joined with  *)
(* its market: base and last, and the market fields the filters read       *)
(* (active is "true", "false" or "none").                                  *)
(***************************************************************************)
SJUP == <<"J","U","P">>

SPEPE == <<"P","E","P","E">>

SSOL == <<"S","O","L">>

Ticker(base, lastPrice, quote, settle, active, linear, type, spotFlag) ==
    [base |-> base, last |-> lastPrice, quote |-> quote, settle |-> settle,
     active |-> active, linear |-> linear, type |-> type, spot |-> spotFlag]

SpotTicker(base, lastPrice) ==
    Ticker(base, lastPrice, "USDT", "none", "true", FALSE, "spot", TRUE)

SwapTicker(base, lastPrice) ==
    Ticker(base, lastPrice, "USDT", "USDT", "true", TRUE, "swap", FALSE)

\* the `if` on the market in each of the six loops
MarketOk(exchange, kind, m) ==
    IF exchange = "binance"
    THEN IF kind = "spot"
         THEN m.quote = "USDT" /\ m.active = "true"
         ELSE m.settle = "USDT" /\ m.active = "true" /\ m.linear
    ELSE IF kind = "spot"
         THEN m.quote = "USDT" /\ m.active # "false" /\ (m.type = "spot" \/ m.spot)
         ELSE m.settle = "USDT" /\ m.active # "false" /\ m.type = "swap"

\* one of the six loops over the tickers: the spot loops also test the
\* normalized base for "UP" and "DOWN", the futures loops do not
\* the loops without the test for "UP" and "DOWN"
RECURSIVE PriceLoop_nofilter(_, _, _, _)
PriceLoop_nofilter(exchange, kind, tickers, acc) ==
    IF tickers = <<>> THEN acc
    ELSE LET t == Head(tickers)
             base == normalize_coin_name(t.base)
             store == /\ MarketOk(exchange, kind, t)
                      /\ t.last # 0
                      /\ t.base # <<>>
                      /\ t.last > 0
         IN  PriceLoop_nofilter(exchange, kind, Tail(tickers),
                       IF store THEN DictSet(acc, base, t.last) ELSE acc)

RECURSIVE PriceLoop(_, _, _, _)
PriceLoop(exchange, kind, tickers, acc) ==
    IF tickers = <<>> THEN acc
    ELSE LET t == Head(tickers)
             base == normalize_coin_name(t.base)
             store == /\ MarketOk(exchange, kind, t)
                      /\ t.last # 0
                      /\ t.base # <<>>
                      /\ t.last > 0
                      /\ kind = "spot" =>
                            (~ Contains(base, SUP) /\ ~ Contains(base, SDOWN))
         IN  PriceLoop(exchange, kind, Tail(tickers),
                       IF store THEN DictSet(acc, base, t.last) ELSE acc)

NoPrices == [spot |-> EmptyDict, futures |-> EmptyDict]

\* fault: "none", "error" (any exception of load_markets or fetch_tickers)
\* or "403" (load_markets refused)
get_prices(exchange, feed, fault) ==
    IF fault # "none" THEN NoPrices
    ELSE [spot    |-> PriceLoop(exchange, "spot", feed.spot, EmptyDict),
          futures |-> PriceLoop(exchange, "futures", feed.futures, EmptyDict)]

get_binance_prices(feed, fault) == get_prices("binance", feed, fault)

get_bybit_prices(feed, fault) ==
    IF fault = "403" THEN NoPrices ELSE get_prices("bybit", feed, fault)

get_gate_prices(feed, fault) == get_prices("gate", feed, fault)

Faults == {"none", "error", "403"}

(***************************************************************************)
(* The three price fetches on their own, on every feed of at most          *)
(* MaxTickers spot tickers and MaxTickers futures tickers of the pools.    *)
(***************************************************************************)
SpotPool ==
    { SpotTicker(SBTC, 100),
      SpotTicker(SJUP, 100),
      Ticker(Sbtc, 200, "USDT", "none", "none", FALSE, "spot", TRUE),
      Ticker(SETH, 100, "BTC", "none", "true", FALSE, "spot", TRUE),
      SpotTicker(SETH, 0) }

FuturesPool ==
    { SwapTicker(SBTC, 105),
      SwapTicker(SJUP, 100),
      SwapTicker(S1000 \o SPEPE, 100),
      SwapTicker(<<"E","T","H","D","O","W","N">>, 100),
      Ticker(SETH, 100, "USDT", "USDT", "true", TRUE, "future", FALSE) }

RECURSIVE SeqsUpTo(_, _)
SeqsUpTo(S, n) ==
    IF n = 0 THEN {<<>>}
    ELSE LET shorter == SeqsUpTo(S, n - 1)
         IN  shorter \cup {Append(w, x) : w \in shorter, x \in S}

PoolFeeds ==
    [spot : SeqsUpTo(SpotPool, MaxTickers), futures : SeqsUpTo(FuturesPool, MaxTickers)]

\* the calls get_<exchange>_prices makes on the exchange clients: the two
\* load_markets and the two fetch_tickers, up to the first one that raises
\* (a fault is raised by the first load_markets)
Attempts(fault) ==
    IF fault = "none"
    THEN <<"load_markets", "load_markets", "fetch_tickers", "fetch_tickers">>
    ELSE <<"load_markets">>

\* the logger.error line of the call
Logged(exchange, fault) ==
    IF fault = "none" THEN "none"
    ELSE IF fault = "403" /\ exchange = "bybit" THEN "blocked"
    ELSE "error"

\* the fault of the call of this exchange made by the step before, if any
PrevFault(exchange) ==
    IF call.fn = "get_prices" /\ call.arg = exchange THEN call.fault ELSE "none"

\* an exchange whose fetch failed answers nothing from then on
PricesCall_sticky(exchange, fault, prices) ==
    /\ call' = [fn |-> "get_prices", arg |-> exchange,
                ret |-> IF PrevFault(exchange) # "none" THEN NoPrices ELSE prices,
                saved |-> FALSE,
                fault |-> fault, prev |-> PrevFault(exchange),
                attempts |-> Attempts(fault), logged |-> Logged(exchange, fault)]
    /\ UNCHANGED <<now, muted_coins, muted_file, last, last_mute, input, cfgVars, cycle>>

\* one call of get_<exchange>_prices: what it returned, the fault the
\* exchange answered with, the fault of the call before (prev), the client
\* calls it made and what it logged
PricesCall(exchange, fault, prices) ==
    /\ call' = [fn |-> "get_prices", arg |-> exchange, ret |-> prices, saved |-> FALSE,
                fault |-> fault, prev |-> PrevFault(exchange),
                attempts |-> Attempts(fault), logged |-> Logged(exchange, fault)]
    /\ UNCHANGED <<now, muted_coins, muted_file, last, last_mute, input, cfgVars, cycle>>

GetBinancePrices ==
    \E fault \in Faults : PricesCall("binance", fault, get_binance_prices(input, fault))

GetBybitPrices ==
    \E fault \in Faults : PricesCall("bybit", fault, get_bybit_prices(input, fault))

GetGatePrices ==
    \E fault \in Faults : PricesCall("gate", fault, get_gate_prices(input, fault))

InitFeed ==
    /\ InitBot
    /\ input \in PoolFeeds

NextFeed ==
    \/ GetBinancePrices
    \/ GetBybitPrices
    \/ GetGatePrices

SpecFeed == InitFeed /\ [][NextFeed]_vars

Leveraged(coin) == Contains(coin, SUP) \/ Contains(coin, SDOWN)

\* C10: no price map a feed produces, spot or futures, on any exchange, holds
\* a coin whose normalized name contains "UP" or "DOWN".
C10_NoLeveragedCoinStored ==
    call.fn = "get_prices" =>
        /\ \A c \in DOMAIN call.ret.spot : ~ Leveraged(c)
        /\ \A c \in DOMAIN call.ret.futures : ~ Leveraged(c)

PricesCalled == call.fn = "get_prices"

\* C17: once Bybit has answered 403 Forbidden the feed is stopped for good:
\* the next call of get_bybit_prices makes no request and logs nothing
\* more, while the other exchanges are still asked.
C17_BlockedFeedStops ==
    PricesCalled =>
        /\ (call.arg = "bybit" /\ call.prev = "403") =>
              /\ call.attempts = <<>>
              /\ call.logged = "none"
              /\ call.ret = NoPrices
        /\ call.arg # "bybit" => call.attempts # <<>>

\* the coins of the tickers of a feed that a fetch stores
Stored(exchange, kind, tickers) ==
    {normalize_coin_name(tickers[i].base) : i \in
        {k \in 1..Len(tickers) :
            /\ MarketOk(exchange, kind, tickers[k])
            /\ tickers[k].last > 0
            /\ kind = "spot" => ~ Leveraged(normalize_coin_name(tickers[k].base))}}

\* C18: a failed fetch leaves nothing behind: the call after one that
\* failed, once the exchange answers again, returns the prices of the
\* tickers it is given, as a first call would.
C18_TransientFaultNotSticky ==
    (PricesCalled /\ call.prev # "none" /\ call.fault = "none") =>
        /\ DOMAIN call.ret.spot = Stored(call.arg, "spot", input.spot)
        /\ DOMAIN call.ret.futures = Stored(call.arg, "futures", input.futures)
        /\ call.attempts # <<>>

\* binance failed, then answered BTC spot 100 and futures 105
C18_Witness ==
    /\ PricesCalled
    /\ call.arg = "binance"
    /\ call.prev = "error"
    /\ call.fault = "none"
    /\ SBTC \in DOMAIN call.ret.spot /\ call.ret.spot[SBTC] = 100
    /\ SBTC \in DOMAIN call.ret.futures /\ call.ret.futures[SBTC] = 105

(***************************************************************************)
(* ExchangeManager.calculate_deviations.  `order` is the order in which    *)
(* the set common_coins is iterated: a set of str has no defined order, so *)
(* it is an argument, and every order is a possible one.  The sort is      *)
(* list.sort(key=abs(deviation), reverse=True), which is stable.           *)
(***************************************************************************)
Abs(x) == IF x < 0 THEN -x ELSE x

\* ((futures - spot) / spot) * 100, in hundredths of a percent
Deviation(spot, futures) == ((futures - spot) * 10000) \div spot

RECURSIVE InsertDesc(_, _)
InsertDesc(sorted, x) ==
    IF sorted = <<>> THEN <<x>>
    ELSE IF Abs(Head(sorted)[4]) >= Abs(x[4])
         THEN <<Head(sorted)>> \o InsertDesc(Tail(sorted), x)
         ELSE <<x>> \o sorted

\* the sort left out
SortDesc_none(entries, sorted) == entries

RECURSIVE SortDesc(_, _)
SortDesc(entries, sorted) ==
    IF entries = <<>> THEN sorted
    ELSE SortDesc(Tail(entries), InsertDesc(sorted, Head(entries)))

\* `abs(deviation) < 20.0` in place of `<=`
RECURSIVE DeviationLoop_strict(_, _, _, _, _)
DeviationLoop_strict(order, spot_prices, futures_prices, funding_rates, acc) ==
    IF order = <<>> THEN acc
    ELSE LET coin == Head(order)
             spot == spot_prices[coin]
             futures == futures_prices[coin]
             deviation == Deviation(spot, futures)
             fr == IF coin \in DOMAIN funding_rates
                   THEN funding_rates[coin] ELSE <<0, "8h">>
             keep == spot > 0 /\ futures > 0 /\ Abs(deviation) < 2000
         IN  DeviationLoop_strict(Tail(order), spot_prices, futures_prices, funding_rates,
                 IF keep
                 THEN Append(acc, <<coin, spot, futures, deviation, fr[1], fr[2]>>)
                 ELSE acc)

RECURSIVE DeviationLoop(_, _, _, _, _)
DeviationLoop(order, spot_prices, futures_prices, funding_rates, acc) ==
    IF order = <<>> THEN acc
    ELSE LET coin == Head(order)
             spot == spot_prices[coin]
             futures == futures_prices[coin]
             deviation == Deviation(spot, futures)
             fr == IF coin \in DOMAIN funding_rates
                   THEN funding_rates[coin] ELSE <<0, "8h">>
             keep == spot > 0 /\ futures > 0 /\ Abs(deviation) <= 2000
         IN  DeviationLoop(Tail(order), spot_prices, futures_prices, funding_rates,
                 IF keep
                 THEN Append(acc, <<coin, spot, futures, deviation, fr[1], fr[2]>>)
                 ELSE acc)

\* every entry appended twice
calculate_deviations_twice(spot_prices, futures_prices, funding_rates, order) ==
    SortDesc(DeviationLoop(order \o order, spot_prices, futures_prices, funding_rates, <<>>),
             <<>>)

calculate_deviations(spot_prices, futures_prices, funding_rates, order) ==
    SortDesc(DeviationLoop(order, spot_prices, futures_prices, funding_rates, <<>>), <<>>)

\* the orders in which a set can be iterated
Orders(S) ==
    {f \in [1..Cardinality(S) -> S] : \A i, j \in 1..Cardinality(S) : f[i] = f[j] => i = j}

common_coins(prices) == DOMAIN prices.spot \cap DOMAIN prices.futures

(***************************************************************************)
(* calculate_deviations on its own, on every pair of price maps over       *)
(* DevCoins with the prices below (spot 100 makes every division exact:    *)
(* futures 102, 105, 109 are +2 %, +5 %, +9 %, 80 and 120 are -20 % and    *)
(* +20 %, 130 is +30 %) and with or without a funding rate for BTC.        *)
(***************************************************************************)
DevCoins == {SBTC, SETH, SSOL}

SpotValues == {0, 100}

FuturesValues == {0, 80, 95, 102, 105, 109, 120, 130}

PriceMaps(values) == UNION {[S -> values] : S \in SUBSET DevCoins}

FundingMaps == {EmptyDict, SBTC :> <<1, "3h5m">>}

DevInputs == [spot : PriceMaps(SpotValues), futures : PriceMaps(FuturesValues),
              funding : FundingMaps]

CalculateDeviations ==
    \E order \in Orders(common_coins(input)) :
        /\ call' = [fn |-> "calculate_deviations", arg |-> order,
                    ret |-> calculate_deviations(input.spot, input.futures,
                                                 input.funding, order),
                    saved |-> FALSE]
        /\ UNCHANGED <<now, muted_coins, muted_file, last, last_mute, input, cfgVars, cycle>>

InitDev ==
    /\ InitBot
    /\ input \in DevInputs

NextDev == CalculateDeviations

SpecDev == InitDev /\ [][NextDev]_vars

DevCalled == call.fn = "calculate_deviations"

\* the coins the contract keeps: in both maps, both prices positive, and
\* |futures - spot| / spot * 100 <= 20
Kept(coin) ==
    /\ coin \in DOMAIN input.spot
    /\ coin \in DOMAIN input.futures
    /\ input.spot[coin] > 0
    /\ input.futures[coin] > 0
    /\ Abs(input.futures[coin] - input.spot[coin]) * 100 <= 20 * input.spot[coin]

EntriesOf(coin) == {i \in 1..Len(call.ret) : call.ret[i][1] = coin}

\* C11: calculate_deviations returns exactly one entry for each coin in both
\* maps with positive prices and |deviation| <= 20, carrying
\* (futures - spot) / spot * 100 (spot 100, futures 105: 5.0); a coin over
\* 20 (spot 100, futures 130) has no entry, one at exactly 20 has.
C11_OneEntryPerKeptCoin ==
    DevCalled =>
        \A coin \in DevCoins :
            /\ Cardinality(EntriesOf(coin)) = IF Kept(coin) THEN 1 ELSE 0
            /\ \A i \in EntriesOf(coin) :
                  /\ call.ret[i][4] * input.spot[coin]
                        = (input.futures[coin] - input.spot[coin]) * 10000
                  /\ (input.spot[coin] = 100 /\ input.futures[coin] = 105)
                        => call.ret[i][4] = 500

\* spot 100 with futures 105 (kept, 5.0), 120 (kept, exactly 20) and 130 (dropped)
C11_Witness ==
    /\ DevCalled
    /\ DOMAIN input.spot = DevCoins
    /\ input.spot = [c \in DevCoins |-> 100]
    /\ input.futures = (SBTC :> 105 @@ SETH :> 120 @@ SSOL :> 130)
    /\ Len(call.ret) = 2
    /\ call.ret[1][1] = SETH /\ call.ret[1][4] = 2000
    /\ call.ret[2][1] = SBTC /\ call.ret[2][4] = 500

\* C12: a coin in only one of the two maps has no entry in the deviation
\* list, and no coin has two.
C12_IntersectionOnly ==
    DevCalled =>
        /\ \A i \in 1..Len(call.ret) :
              call.ret[i][1] \in DOMAIN input.spot \cap DOMAIN input.futures
        /\ \A i, j \in 1..Len(call.ret) :
              call.ret[i][1] = call.ret[j][1] => i = j

\* BTC in both maps, ETH only in spot, SOL only in futures: BTC alone is listed
C12_Witness ==
    /\ DevCalled
    /\ input.spot = (SBTC :> 100 @@ SETH :> 100)
    /\ input.futures = (SBTC :> 105 @@ SSOL :> 105)
    /\ Len(call.ret) = 1
    /\ call.ret[1][1] = SBTC

\* C13: the list is in descending order of |deviation|, whatever the sign
\* (2 %, 9 %, 5 % come out as 9 %, 5 %, 2 %).
C13_SortedByAbsDescending ==
    DevCalled =>
        \A i \in 1..(Len(call.ret) - 1) :
            Abs(call.ret[i][4]) >= Abs(call.ret[i + 1][4])

\* BTC 2 %, ETH 9 %, SOL 5 %, iterated as BTC, ETH, SOL: ETH, SOL, BTC
C13_Witness ==
    /\ DevCalled
    /\ call.arg = <<SBTC, SETH, SSOL>>
    /\ input.spot = [c \in DevCoins |-> 100]
    /\ input.futures = (SBTC :> 102 @@ SETH :> 109 @@ SSOL :> 105)
    /\ Len(call.ret) = 3
    /\ call.ret[1][1] = SETH /\ call.ret[2][1] = SSOL /\ call.ret[3][1] = SBTC

\* str < str on names made of capital letters
CharRank(c) == CHOOSE i \in 1..Len(UpperCase) : UpperCase[i] = c

RECURSIVE StrLess(_, _)
StrLess(a, b) ==
    IF b = <<>> THEN FALSE
    ELSE IF a = <<>> THEN TRUE
    ELSE IF Head(a) = Head(b) THEN StrLess(Tail(a), Tail(b))
    ELSE CharRank(Head(a)) < CharRank(Head(b))

\* C14: of two entries with equal |deviation| the one with the smaller coin
\* name comes first, so the order of the list does not depend on the order
\* in which the set of common coins is iterated.
C14_TiesByCoinName ==
    DevCalled =>
        \A i \in 1..(Len(call.ret) - 1) :
            Abs(call.ret[i][4]) = Abs(call.ret[i + 1][4])
                => StrLess(call.ret[i][1], call.ret[i + 1][1])

(***************************************************************************)
(* ExchangeManager.get_all_deviations.  results[e] is what get_<e>_prices  *)
(* returned in this call, funding[e] what get_<e>_funding_rates returned,  *)
(* order[e] the iteration order of the common coins of e.  The             *)
(* get_<e>_prices coroutines catch every Exception themselves, so gather() *)
(* never hands one back.  The result is the dict as a sequence of          *)
(* <<name, deviations>> in insertion order.                                *)
(***************************************************************************)
Exchanges == <<"binance", "bybit", "gate">>

ExchangeNames == {Exchanges[i] : i \in 1..Len(Exchanges)}

PricesOf(name, w) ==
    IF name = "binance" THEN get_binance_prices(w.feed, w.fault)
    ELSE IF name = "bybit" THEN get_bybit_prices(w.feed, w.fault)
    ELSE get_gate_prices(w.feed, w.fault)

task_names(binance_enabled, bybit_enabled, gate_enabled) ==
    (IF binance_enabled THEN <<"binance">> ELSE <<>>)
    \o (IF bybit_enabled THEN <<"bybit">> ELSE <<>>)
    \o (IF gate_enabled THEN <<"gate">> ELSE <<>>)

\* every exchange given the prices and funding rates of the first one asked
get_all_deviations_first(binance_enabled, bybit_enabled, gate_enabled, results, funding, order) ==
    LET names == task_names(binance_enabled, bybit_enabled, gate_enabled)
    IN  [i \in 1..Len(names) |->
            <<names[i], calculate_deviations(results[names[1]].spot,
                                             results[names[1]].futures,
                                             funding[names[1]], order[names[1]])>>]

get_all_deviations(binance_enabled, bybit_enabled, gate_enabled, results, funding, order) ==
    LET names == task_names(binance_enabled, bybit_enabled, gate_enabled)
    IN  [i \in 1..Len(names) |->
            <<names[i], calculate_deviations(results[names[i]].spot,
                                             results[names[i]].futures,
                                             funding[names[i]], order[names[i]])>>]

\* get_<e>_funding_rates: `except Exception` returns {}
get_funding_rates(rates, fault) == IF fault THEN EmptyDict ELSE rates

(***************************************************************************)
(* get_all_deviations on its own.  input[e] is what exchange e answers:    *)
(* its tickers, the fault of its price fetch, its funding rates and        *)
(* whether the funding fetch fails.                                        *)
(***************************************************************************)
GatherWorld(spotFutures, fault, funding_fault) ==
    [feed |-> spotFutures, fault |-> fault,
     funding |-> (SBTC :> <<1, "3h5m">>), funding_fault |-> funding_fault]

\* BTC +5 %, ETH +0.5 %
CalmFeed ==
    [spot |-> <<SpotTicker(SBTC, 100), SpotTicker(SETH, 200)>>,
     futures |-> <<SwapTicker(SBTC, 105), SwapTicker(SETH, 201)>>]

\* BTC -5 %, ETH +5 %
TiedFeed ==
    [spot |-> <<SpotTicker(SBTC, 100), SpotTicker(SETH, 100)>>,
     futures |-> <<SwapTicker(SBTC, 95), SwapTicker(SETH, 105)>>]

\* BTC -5 %, ETH +5 %, and JUP +20 % on both markets
LeveragedFeed ==
    [spot |-> <<SpotTicker(SBTC, 100), SpotTicker(SJUP, 100), SpotTicker(SETH, 100)>>,
     futures |-> <<SwapTicker(SJUP, 120), SwapTicker(SBTC, 95), SwapTicker(SETH, 105)>>]

GatherWorlds ==
    { GatherWorld(CalmFeed, "none", FALSE),
      GatherWorld(LeveragedFeed, "none", FALSE),
      GatherWorld(CalmFeed, "none", TRUE),
      GatherWorld(TiedFeed, "none", FALSE),
      GatherWorld(CalmFeed, "error", FALSE),
      GatherWorld(TiedFeed, "403", TRUE) }

\* what get_<e>_prices returns for each answer of e
GatherPrices == [e \in ExchangeNames |-> [w \in GatherWorlds |-> PricesOf(e, w)]]

GatherResults(world) == [e \in ExchangeNames |-> GatherPrices[e][world[e]]]

GatherFunding(world) ==
    [e \in ExchangeNames |-> get_funding_rates(world[e].funding, world[e].funding_fault)]

GatherOrders(world) ==
    LET results == GatherResults(world)
    IN  {[e \in ExchangeNames |->
             IF e = "binance" THEN ob ELSE IF e = "bybit" THEN oy ELSE og] :
            ob \in Orders(common_coins(results["binance"])),
            oy \in Orders(common_coins(results["bybit"])),
            og \in Orders(common_coins(results["gate"]))}

GetAllDeviations ==
    \E b \in BOOLEAN, y \in BOOLEAN, g \in BOOLEAN :
      \E order \in GatherOrders(input) :
        /\ call' = [fn |-> "get_all_deviations",
                    arg |-> [enabled |-> task_names(b, y, g), order |-> order],
                    ret |-> get_all_deviations(b, y, g, GatherResults(input),
                                               GatherFunding(input), order),
                    saved |-> FALSE]
        /\ UNCHANGED <<now, muted_coins, muted_file, last, last_mute, input, cfgVars, cycle>>

InitGather ==
    /\ InitBot
    /\ input \in [ExchangeNames -> GatherWorlds]

NextGather == GetAllDeviations

SpecGather == InitGather /\ [][NextGather]_vars

GatherCalled == call.fn = "get_all_deviations"

\* whether the price fetch of e fails
PriceFetchFails(e) == input[e].fault # "none"

\* C16: the keys of the result are exactly the enabled exchanges (none when
\* none is enabled); an exchange whose price fetch fails has the empty list;
\* every other exchange has the deviations of its own prices, whatever the
\* others did; and when only its funding fetch fails its entries carry the
\* placeholder (0.0, "8h").
C16_FailuresIsolated ==
    GatherCalled =>
        /\ {call.ret[i][1] : i \in 1..Len(call.ret)}
              = {call.arg.enabled[i] : i \in 1..Len(call.arg.enabled)}
        /\ Len(call.ret) = Len(call.arg.enabled)
        /\ \A i \in 1..Len(call.ret) :
              LET e == call.ret[i][1]
                  data == call.ret[i][2]
              IN  /\ PriceFetchFails(e) => data = <<>>
                  /\ input[e].fault = "none" =>
                        /\ {data[k][1] : k \in 1..Len(data)} = {SBTC, SETH}
                        /\ \A k \in 1..Len(data) :
                              \E sp \in 1..Len(input[e].feed.spot),
                                 fu \in 1..Len(input[e].feed.futures) :
                                /\ input[e].feed.spot[sp].base = data[k][1]
                                /\ input[e].feed.futures[fu].base = data[k][1]
                                /\ data[k][2] = input[e].feed.spot[sp].last
                                /\ data[k][3] = input[e].feed.futures[fu].last
                        /\ \A k \in 1..Len(data) :
                              <<data[k][5], data[k][6]>> =
                                  IF ~ input[e].funding_fault /\ data[k][1] = SBTC
                                  THEN <<1, "3h5m">> ELSE <<0, "8h">>

\* all three asked: the price fetch of binance fails, the funding fetch of
\* bybit fails, gate answers both
C16_Witness ==
    /\ GatherCalled
    /\ call.arg.enabled = Exchanges
    /\ input["binance"].fault = "error"
    /\ input["bybit"].fault = "none" /\ input["bybit"].funding_fault
    /\ input["gate"].fault = "none" /\ ~ input["gate"].funding_fault
    /\ call.ret[1] = <<"binance", <<>> >>
    /\ Len(call.ret[2][2]) = 2 /\ call.ret[2][2][1][6] = "8h"
    /\ Len(call.ret[3][2]) = 2 /\ call.ret[3][2][1][6] = "3h5m"

\* C25: no deviation list get_all_deviations returns holds a coin whose name
\* contains "UP" or "DOWN", also when the futures map of the exchange holds
\* such a coin (alerts are built from these lists only).
C25_NoLeveragedDeviation ==
    GatherCalled =>
        \A i \in 1..Len(call.ret) :
            \A k \in 1..Len(call.ret[i][2]) : ~ Leveraged(call.ret[i][2][k][1])

\* binance was asked while its futures map held JUP, and its list is not empty
C25_Witness ==
    /\ GatherCalled
    /\ \E i \in 1..Len(call.ret) :
          /\ call.ret[i][1] = "binance"
          /\ call.ret[i][2] # <<>>
          /\ SJUP \in DOMAIN GatherPrices["binance"][input["binance"]].futures

(***************************************************************************)
(* bot.check_and_alert, the job the scheduler runs.                        *)
(*                                                                         *)
(* `for coin, spot, futures, dev in data` unpacks each entry into four     *)
(* names: an entry of another length raises ValueError, which the outer    *)
(* `except Exception` logs, ending the cycle.  The loop state carries the  *)
(* registry because is_muted deletes (and saves) as it goes.               *)
(***************************************************************************)
Min(a, b) == IF a < b THEN a ELSE b

\* the entry of the first listed coin deleted whatever its expiry
AlertLoop_forget(exchange, data, threshold, t, st) ==
    IF st.raised \/ data = <<>> THEN st
    ELSE [st EXCEPT !.raised = TRUE,
                    !.muted = IF Head(data)[1] \in DOMAIN st.muted
                              THEN DictDel(st.muted, Head(data)[1]) ELSE st.muted]

RECURSIVE AlertLoop(_, _, _, _, _)
AlertLoop(exchange, data, threshold, t, st) ==
    IF st.raised \/ data = <<>> THEN st
    ELSE LET entry == Head(data)
         IN  IF Len(entry) # 4 THEN [st EXCEPT !.raised = TRUE]
             ELSE LET coin == entry[1]
                      dev == entry[4]
                      m == is_muted(coin, st.muted, t)
                  IN  IF AtLeast(Abs(dev), threshold)
                      THEN AlertLoop(exchange, Tail(data), threshold, t,
                               [raised |-> FALSE,
                                muted  |-> m.muted,
                                saved  |-> st.saved \/ m.saved,
                                alerts |-> IF m.ret THEN st.alerts
                                           ELSE Append(st.alerts, <<exchange, coin, dev>>)])
                      ELSE AlertLoop(exchange, Tail(data), threshold, t, st)

RECURSIVE ExchangeLoop(_, _, _, _)
ExchangeLoop(deviations, threshold, t, st) ==
    IF st.raised \/ deviations = <<>> THEN st
    ELSE ExchangeLoop(Tail(deviations), threshold, t,
             AlertLoop(Head(deviations)[1], Head(deviations)[2], threshold, t, st))

\* the chats application.bot.send_message reaches, each with the message
SendAll(chat_ids, message, failing) ==
    LET reached == SelectSeq(chat_ids, LAMBDA c : c \notin failing)
    IN  [i \in 1..Len(reached) |-> [chat_id |-> reached[i], text |-> message]]

\* the body of the `try` up to `if alerts and application`
RunCycle(results, funding, order) ==
    LET deviations == get_all_deviations(settings.binance_enabled,
                          settings.bybit_enabled, settings.gate_enabled,
                          results, funding, order)
    IN  [deviations |-> deviations,
         st |-> ExchangeLoop(deviations, settings.threshold_percent, now,
                    [raised |-> FALSE, muted |-> muted_coins,
                     saved |-> FALSE, alerts |-> <<>>])]

\* cycle.alerts is the list `alerts` as it reaches `if alerts and application`
\* (nothing reaches it when the loop raised); cycle.asked are the exchanges
\* whose get_<e>_prices and get_<e>_funding_rates the cycle awaits, each of
\* which starts with load_markets on the exchange client
\* `if alerts` left out: the message is sent with an empty list too
check_and_alert_always(results, funding, order, failing) ==
    /\ IF settings.chat_ids = <<>>
       THEN /\ cycle' = [NoCycle EXCEPT !.outcome = "no_chat_ids"]
            /\ UNCHANGED <<muted_coins, muted_file>>
       ELSE IF ~ settings.binance_enabled /\ ~ settings.bybit_enabled
               /\ ~ settings.gate_enabled
       THEN /\ cycle' = [NoCycle EXCEPT !.outcome = "all_disabled"]
            /\ UNCHANGED <<muted_coins, muted_file>>
       ELSE LET run == RunCycle(results, funding, order)
                st == run.st
                message == SubSeq(st.alerts, 1, Min(15, Len(st.alerts)))
            IN  /\ muted_coins' = st.muted
                /\ muted_file' = IF st.saved THEN st.muted ELSE muted_file
                /\ cycle' = [outcome |-> IF st.raised THEN "error" ELSE "done",
                             deviations |-> run.deviations,
                             alerts |-> IF st.raised THEN <<>> ELSE st.alerts,
                             sent |-> IF st.raised THEN <<>>
                                      ELSE SendAll(settings.chat_ids, message, failing),
                             asked |-> task_names(settings.binance_enabled,
                                           settings.bybit_enabled, settings.gate_enabled),
                             failing |-> IF st.raised \/ st.alerts = <<>> THEN {}
                                         ELSE failing]
    /\ last' = NoLast
    /\ call' = NoCall
    /\ UNCHANGED <<now, last_mute, input, cfgVars>>

\* no `except Exception` around the cycle: the failure reaches the scheduler
check_and_alert_raise(results, funding, order, failing) ==
    /\ IF settings.chat_ids = <<>>
       THEN /\ cycle' = [NoCycle EXCEPT !.outcome = "no_chat_ids"]
            /\ UNCHANGED <<muted_coins, muted_file>>
       ELSE IF ~ settings.binance_enabled /\ ~ settings.bybit_enabled
               /\ ~ settings.gate_enabled
       THEN /\ cycle' = [NoCycle EXCEPT !.outcome = "all_disabled"]
            /\ UNCHANGED <<muted_coins, muted_file>>
       ELSE LET run == RunCycle(results, funding, order)
                st == run.st
                message == SubSeq(st.alerts, 1, Min(15, Len(st.alerts)))
            IN  /\ muted_coins' = st.muted
                /\ muted_file' = IF st.saved THEN st.muted ELSE muted_file
                /\ cycle' = [outcome |-> IF st.raised THEN "raised" ELSE "done",
                             deviations |-> run.deviations,
                             alerts |-> IF st.raised THEN <<>> ELSE st.alerts,
                             sent |-> IF st.raised \/ st.alerts = <<>> THEN <<>>
                                      ELSE SendAll(settings.chat_ids, message, failing),
                             asked |-> task_names(settings.binance_enabled,
                                           settings.bybit_enabled, settings.gate_enabled),
                             failing |-> IF st.raised \/ st.alerts = <<>> THEN {}
                                         ELSE failing]
    /\ last' = NoLast
    /\ call' = NoCall
    /\ UNCHANGED <<now, last_mute, input, cfgVars>>

check_and_alert(results, funding, order, failing) ==
    /\ IF settings.chat_ids = <<>>
       THEN /\ cycle' = [NoCycle EXCEPT !.outcome = "no_chat_ids"]
            /\ UNCHANGED <<muted_coins, muted_file>>
       ELSE IF ~ settings.binance_enabled /\ ~ settings.bybit_enabled
               /\ ~ settings.gate_enabled
       THEN /\ cycle' = [NoCycle EXCEPT !.outcome = "all_disabled"]
            /\ UNCHANGED <<muted_coins, muted_file>>
       ELSE LET run == RunCycle(results, funding, order)
                st == run.st
                message == SubSeq(st.alerts, 1, Min(15, Len(st.alerts)))
            IN  /\ muted_coins' = st.muted
                /\ muted_file' = IF st.saved THEN st.muted ELSE muted_file
                /\ cycle' = [outcome |-> IF st.raised THEN "error" ELSE "done",
                             deviations |-> run.deviations,
                             alerts |-> IF st.raised THEN <<>> ELSE st.alerts,
                             sent |-> IF st.raised \/ st.alerts = <<>> THEN <<>>
                                      ELSE SendAll(settings.chat_ids, message, failing),
                             asked |-> task_names(settings.binance_enabled,
                                           settings.bybit_enabled, settings.gate_enabled),
                             failing |-> IF st.raised \/ st.alerts = <<>> THEN {}
                                         ELSE failing]
    /\ last' = NoLast
    /\ call' = NoCall
    /\ UNCHANGED <<now, last_mute, input, cfgVars>>

(***************************************************************************)
(* What the exchanges can answer in one cycle: for each exchange its       *)
(* tickers, the fault of its price fetch and its funding rates.            *)
(***************************************************************************)
\* BTC +5 %, ETH +0.5 %
CalmWorld ==
    [feed |-> [spot |-> <<SpotTicker(SBTC, 100), SpotTicker(SETH, 200)>>,
               futures |-> <<SwapTicker(SBTC, 105), SwapTicker(SETH, 201)>>],
     fault |-> "none",
     funding |-> (SBTC :> <<1, "3h5m">>)]

\* BTC -5 %, ETH +5 %, JUP in the futures map only
TiedWorld ==
    [feed |-> [spot |-> <<SpotTicker(SBTC, 100), SpotTicker(SETH, 100),
                          SpotTicker(SJUP, 100)>>,
               futures |-> <<SwapTicker(SBTC, 95), SwapTicker(SETH, 105),
                             SwapTicker(SJUP, 100)>>],
     fault |-> "none",
     funding |-> EmptyDict]

\* the fetch failed
IdleWorld ==
    [feed |-> [spot |-> <<>>, futures |-> <<>>], fault |-> "error", funding |-> EmptyDict]

CycleWorlds ==
    { [binance |-> CalmWorld, bybit |-> CalmWorld, gate |-> CalmWorld],
      [binance |-> TiedWorld, bybit |-> CalmWorld, gate |-> IdleWorld],
      [binance |-> IdleWorld, bybit |-> TiedWorld, gate |-> CalmWorld],
      [binance |-> IdleWorld, bybit |-> IdleWorld, gate |-> IdleWorld] }

\* what get_<e>_prices returns to gather() in each world
CycleResults == [w \in CycleWorlds |-> [e \in ExchangeNames |-> PricesOf(e, w[e])]]

CycleFunding == [w \in CycleWorlds |-> [e \in ExchangeNames |-> w[e].funding]]

\* the iteration orders of the common coins, for the exchanges that are asked
CycleOrders ==
    [w \in CycleWorlds |->
        [enabled \in SUBSET ExchangeNames |->
            {o \in [ExchangeNames -> UNION {Orders(S) : S \in SUBSET {SBTC, SETH}}] :
                \A e \in ExchangeNames :
                    o[e] \in (IF e \in enabled
                              THEN Orders(common_coins(CycleResults[w][e]))
                              ELSE {<<>>})}]]

Chats == {1, 2}

IsEnabled(name) ==
    IF name = "binance" THEN settings.binance_enabled
    ELSE IF name = "bybit" THEN settings.bybit_enabled
    ELSE settings.gate_enabled

CycleSkipped ==
    \/ settings.chat_ids = <<>>
    \/ \A e \in ExchangeNames : ~ IsEnabled(e)

\* whether the cycle reaches send_message with these answers
WillSend(results, funding, order) ==
    LET st == RunCycle(results, funding, order).st
    IN  ~ st.raised /\ st.alerts # <<>>

\* the scheduled job fires: the exchanges answer one of CycleWorlds, the
\* common coins of each enabled exchange are iterated in some order, and
\* send_message fails for some of the chats
CheckAndAlert ==
    \E w \in CycleWorlds :
      \E order \in CycleOrders[w][IF CycleSkipped THEN {}
                                  ELSE {e \in ExchangeNames : IsEnabled(e)}] :
        \E failing \in (IF ~ CycleSkipped /\ WillSend(CycleResults[w], CycleFunding[w], order)
                        THEN SUBSET Chats ELSE {{}}) :
          check_and_alert(CycleResults[w], CycleFunding[w], order, failing)

(***************************************************************************)
(* bot.show_deviations_handler (callback "show_deviations").  Its loop     *)
(* `for coin, spot, futures, dev in data[:10]` unpacks each entry into     *)
(* four names; the ValueError of an entry of another length is caught by   *)
(* the handler's `except Exception`, which replies with the error text.    *)
(* The items of the listing are <<exchange, rank, coin, dev>>.             *)
(***************************************************************************)
Top(data, n) == SubSeq(data, 1, Min(n, Len(data)))

RECURSIVE ListingLoop(_, _)
ListingLoop(deviations, acc) ==
    IF acc.raised \/ deviations = <<>> THEN acc
    ELSE LET exchange == Head(deviations)[1]
             top == Top(Head(deviations)[2], 10)
         IN  ListingLoop(Tail(deviations),
                 IF \E k \in 1..Len(top) : Len(top[k]) # 4
                 THEN [acc EXCEPT !.raised = TRUE]
                 ELSE [acc EXCEPT !.items =
                          @ \cup {<<exchange, k, top[k][1], top[k][4]>> : k \in 1..Len(top)}])

show_deviations_handler(results, funding, order) ==
    LET deviations == get_all_deviations(settings.binance_enabled,
                          settings.bybit_enabled, settings.gate_enabled,
                          results, funding, order)
        listing == ListingLoop(deviations, [raised |-> FALSE, items |-> {}])
        reply == IF \A i \in 1..Len(deviations) : deviations[i][2] = <<>>
                 THEN [kind |-> "no_data", items |-> {}]
                 ELSE IF listing.raised
                 THEN [kind |-> "error", items |-> {}]
                 ELSE [kind |-> "listing", items |-> listing.items]
    IN  /\ last' = [update |-> [kind |-> "show_deviations", args |-> <<>>],
                    reply  |-> reply]
        /\ call' = [fn |-> "get_all_deviations",
                    arg |-> task_names(settings.binance_enabled,
                                settings.bybit_enabled, settings.gate_enabled),
                    ret |-> deviations, saved |-> FALSE]
        /\ cycle' = NoCycle
        /\ UNCHANGED <<now, muted_coins, muted_file, last_mute, input, cfgVars>>

\* the worlds a query meets: one with a tie, a calm exchange and a failed
\* one, and one where every fetch failed
ShowWorlds ==
    { [binance |-> TiedWorld, bybit |-> CalmWorld, gate |-> IdleWorld],
      [binance |-> IdleWorld, bybit |-> IdleWorld, gate |-> IdleWorld] }

\* the button is pressed: the exchanges answer one of ShowWorlds
ButtonShowDeviations ==
    \E w \in ShowWorlds :
      \E order \in CycleOrders[w][{e \in ExchangeNames : IsEnabled(e)}] :
        show_deviations_handler(CycleResults[w], CycleFunding[w], order)

\* the chat id appended without the `not in` test
start_again(chat_id) ==
    /\ settings' = [settings EXCEPT !.chat_ids = Append(@, chat_id)]
    /\ settings_file' = settings'
    /\ last' = [update |-> [kind |-> "start", args |-> <<>>],
                reply  |-> [kind |-> "welcome", items |-> {}]]
    /\ call' = NoCall
    /\ cycle' = NoCycle
    /\ UNCHANGED <<now, muted_coins, muted_file, last_mute, input, waiting_for, jobs>>

\* /start
start(chat_id) ==
    /\ IF \A i \in 1..Len(settings.chat_ids) : settings.chat_ids[i] # chat_id
       THEN /\ settings' = [settings EXCEPT !.chat_ids = Append(@, chat_id)]
            /\ settings_file' = settings'
       ELSE UNCHANGED <<settings, settings_file>>
    /\ last' = [update |-> [kind |-> "start", args |-> <<>>],
                reply  |-> [kind |-> "welcome", items |-> {}]]
    /\ call' = NoCall
    /\ cycle' = NoCycle
    /\ UNCHANGED <<now, muted_coins, muted_file, last_mute, input, waiting_for, jobs>>

\* callbacks "toggle_binance", "toggle_bybit", "toggle_gate"
Toggle(name) ==
    /\ settings' =
          IF name = "binance" THEN [settings EXCEPT !.binance_enabled = ~ @]
          ELSE IF name = "bybit" THEN [settings EXCEPT !.bybit_enabled = ~ @]
          ELSE [settings EXCEPT !.gate_enabled = ~ @]
    /\ settings_file' = settings'
    /\ last' = [update |-> [kind |-> "toggle", args |-> <<>>],
                reply  |-> [kind |-> "settings", items |-> {}]]
    /\ call' = NoCall
    /\ cycle' = NoCycle
    /\ UNCHANGED <<now, muted_coins, muted_file, last_mute, input, waiting_for, jobs>>

(***************************************************************************)
(* The bot: the handlers and the scheduled job.                            *)
(***************************************************************************)
(***************************************************************************)
(* The threshold and interval prompts: the buttons set_threshold and       *)
(* set_interval, and handle_message, which reads the text typed next.      *)
(***************************************************************************)
\* callback "set_threshold"
ButtonSetThreshold ==
    /\ waiting_for' = "threshold"
    /\ last' = [update |-> [kind |-> "set_threshold", args |-> <<>>],
                reply  |-> [kind |-> "ask_threshold", items |-> {}]]
    /\ call' = NoCall
    /\ cycle' = NoCycle
    /\ UNCHANGED <<now, muted_coins, muted_file, last_mute, input,
                   settings, settings_file, jobs>>

\* callback "set_interval"
ButtonSetInterval ==
    /\ waiting_for' = "interval"
    /\ last' = [update |-> [kind |-> "set_interval", args |-> <<>>],
                reply  |-> [kind |-> "ask_interval", items |-> {}]]
    /\ call' = NoCall
    /\ cycle' = NoCycle
    /\ UNCHANGED <<now, muted_coins, muted_file, last_mute, input,
                   settings, settings_file, jobs>>

\* callback "settings", which is also where the Cancel button of the two
\* prompts leads: the settings screen is shown, user_data is not touched
ButtonSettings ==
    /\ last' = [update |-> [kind |-> "settings", args |-> <<>>],
                reply  |-> [kind |-> "settings_screen", items |-> {}]]
    /\ call' = NoCall
    /\ cycle' = NoCycle
    /\ UNCHANGED <<now, muted_coins, muted_file, last_mute, input, cfgVars>>

\* add_job without the remove_job before it
reschedule_checker_noremove(js, seconds) ==
    Append(js, [id |-> "price_checker", seconds |-> seconds])

\* remove_job("price_checker") (ignoring its failure), then add_job
reschedule_checker(js, seconds) ==
    Append(SelectSeq(js, LAMBDA j : j.id # "price_checker"),
           [id |-> "price_checker", seconds |-> seconds])

\* what handle_message does with the text: "ignored" (no prompt open),
\* "threshold_ok", "threshold_bad", "interval_ok" or "interval_bad"
MessageOutcome(text) ==
    IF waiting_for = "threshold"
    THEN IF ParseFloat(text).kind = "error" \/ NotPositive(ParseFloat(text))
         THEN "threshold_bad" ELSE "threshold_ok"
    ELSE IF waiting_for = "interval"
    THEN IF ParseInt(text).kind = "error" \/ ParseInt(text).value < 30
         THEN "interval_bad" ELSE "interval_ok"
    ELSE "ignored"

handle_message(text) ==
    LET outcome == MessageOutcome(text)
    IN  /\ IF outcome = "threshold_ok"
           THEN /\ settings' = [settings EXCEPT !.threshold_percent = ParseFloat(text)]
                /\ settings_file' = settings'
                /\ waiting_for' = "none"
                /\ UNCHANGED jobs
           ELSE IF outcome = "interval_ok"
           THEN /\ settings' = [settings EXCEPT
                                   !.check_interval_seconds = ParseInt(text).value]
                /\ settings_file' = settings'
                /\ jobs' = reschedule_checker(jobs, settings'.check_interval_seconds)
                /\ waiting_for' = "none"
           ELSE UNCHANGED <<settings, settings_file, waiting_for, jobs>>
        /\ last' = [update |-> [kind |-> "text", args |-> <<text>>],
                    reply  |-> [kind |-> IF outcome = "ignored" THEN "none" ELSE outcome,
                                items |-> {}]]
        /\ call' = NoCall
        /\ cycle' = NoCycle
        /\ UNCHANGED <<now, muted_coins, muted_file, last_mute, input>>

\* the texts typed at a prompt
SettingTexts ==
    { <<"0",".","5">>, <<"2">>, <<"0">>, <<"-","1">>, <<"a","b","c">>,
      <<"n","a","n">>, <<"i","n","f">>, <<"-","i","n","f">>,
      <<"3","0">>, <<"2","9">>, <<"4","5">> }

NextSettings ==
    \/ ButtonSetThreshold
    \/ ButtonSetInterval
    \/ ButtonSettings
    \/ \E text \in SettingTexts : handle_message(text)

SpecSettings == Init /\ [][NextSettings]_vars

\* f > 0
Positive(f) ==
    \/ f.kind = "num" /\ f.value > 0
    \/ f.kind = "inf" /\ f.value > 0

\* a text the contract rejects at the open prompt
RejectedText(text) ==
    \/ /\ waiting_for = "threshold"
       /\ (ParseFloat(text).kind = "error" \/ NotPositive(ParseFloat(text)))
    \/ /\ waiting_for = "interval"
       /\ (ParseInt(text).kind = "error" \/ ParseInt(text).value < 30)

\* C20: from the defaults, after any threshold and interval inputs,
\* threshold_percent > 0 and check_interval_seconds >= 30; an unparsable
\* text, a threshold <= 0 or an interval < 30 gets the failure reply and
\* leaves settings, the settings file and the scheduled job as they were.
C20_SettingsStayValid ==
    /\ [](Positive(settings.threshold_percent) /\ settings.check_interval_seconds >= 30)
    /\ [][\A text \in SettingTexts : (RejectedText(text) /\ handle_message(text)) =>
            /\ last'.reply.kind \in {"threshold_bad", "interval_bad"}
            /\ UNCHANGED <<settings, settings_file, jobs>>
          ]_vars

\* C27: after any interval changes the scheduler holds at most one job
\* "price_checker" and its period is the current check_interval_seconds; a
\* rejected interval input neither removes nor re-adds the job.
C27_OneCheckerJob ==
    /\ [](/\ Cardinality({i \in 1..Len(jobs) : jobs[i].id = "price_checker"}) <= 1
          /\ \A i \in 1..Len(jobs) :
                jobs[i].id = "price_checker" =>
                    jobs[i].seconds = settings.check_interval_seconds)
    /\ [][\A text \in SettingTexts :
            (waiting_for = "interval" /\ RejectedText(text) /\ handle_message(text)) =>
                UNCHANGED jobs]_vars

\* the interval was changed to 45 seconds and the one job has that period
C27_Witness ==
    /\ last.update = [kind |-> "text", args |-> << <<"4","5">> >>]
    /\ last.reply.kind = "interval_ok"
    /\ settings.check_interval_seconds = 45
    /\ jobs = <<[id |-> "price_checker", seconds |-> 45]>>

\* C28: a text changes the threshold (the interval) only while the prompt
\* for the threshold (the interval) is open; the text that follows Cancel,
\* and the text that follows an accepted value, change no setting.
C28_TextNeedsOpenPrompt ==
    [][\A text \in SettingTexts :
          handle_message(text) =>
            /\ settings'.threshold_percent # settings.threshold_percent =>
                  waiting_for = "threshold"
            /\ settings'.check_interval_seconds # settings.check_interval_seconds =>
                  waiting_for = "interval"
            /\ (\/ last.update.kind = "settings"
                \/ last.reply.kind \in {"threshold_ok", "interval_ok"}) =>
                  UNCHANGED <<settings, settings_file, jobs>>
      ]_vars

\* the /mute commands sent while the scheduler runs
CycleMuteArgs == { <<Sbtc, <<"1">> >>, <<SETH, <<"1">> >>, <<Sbtc, <<"0">> >> }

Next ==
    \/ Tick
    \/ \E chat_id \in Chats : start(chat_id)
    \/ \E name \in ExchangeNames : Toggle(name)
    \/ \E args \in CycleMuteArgs : mute_command(args)
    \/ \E c \in Coins : ButtonUnmute(c)
    \/ ButtonShowMuted
    \/ ButtonShowDeviations
    \/ CheckAndAlert

Spec == Init /\ [][Next]_vars

(***************************************************************************)
(* The check cycle against its contract.  cycle holds what the latest      *)
(* check_and_alert did: the lists get_all_deviations returned and the      *)
(* alerts that reached `if alerts and application`.                        *)
(***************************************************************************)
CycleRan == cycle.outcome \in {"done", "error"}

\* an entry of a deviation list that the contract says is alerted
Qualifies(entry) ==
    /\ AtLeast(Abs(entry[4]), settings.threshold_percent)
    /\ ~ is_muted(entry[1], muted_coins, now).ret

AlertsOf(name) == SelectSeq(cycle.alerts, LAMBDA a : a[1] = name)

ExpectedAlerts(name, data) ==
    LET due == SelectSeq(data, Qualifies)
    IN  [i \in 1..Len(due) |-> <<name, due[i][1], due[i][4]>>]

\* C1: in a cycle that ran, the alerts of every asked exchange are exactly
\* the entries of its deviation list with abs(deviation) >= threshold_percent
\* whose coin is not muted, in the order of that list.
C1_AlertIffQualifies ==
    CycleRan =>
        \A i \in 1..Len(cycle.deviations) :
            AlertsOf(cycle.deviations[i][1])
                = ExpectedAlerts(cycle.deviations[i][1], cycle.deviations[i][2])

SomeQualifies ==
    \E i \in 1..Len(cycle.deviations) :
        \E k \in 1..Len(cycle.deviations[i][2]) : Qualifies(cycle.deviations[i][2][k])

\* C2: a cycle that ran (a chat is registered, an exchange is enabled) and
\* whose deviation lists hold an entry at or over the threshold for a coin
\* that is not muted does not end in the error path and has alerts to send.
C2_QualifyingDeviationAlerts ==
    (CycleRan /\ SomeQualifies) =>
        /\ cycle.outcome = "done"
        /\ cycle.alerts # <<>>

\* the deviation list of the example: BTC 5 %, ETH 0.5 %
IsExample(data) ==
    /\ Len(data) = 2
    /\ data[1][1] = SBTC /\ data[1][4] = 500
    /\ data[2][1] = SETH /\ data[2][4] = 50

\* C3: at threshold 1.0 with BTC 5 % and ETH 0.5 %: while BTC is muted a
\* cycle has no alert, ETH never has one, and the cycle that follows the
\* unmute of BTC has exactly the BTC alert; and in general no cycle has an
\* alert for a coin between its mute and the earlier of expiry and unmute.
C3_MuteSuppression ==
    /\ [](CycleRan =>
            \A k \in 1..Len(cycle.alerts) :
                /\ ~ (cycle.alerts[k][2] \in DOMAIN last_mute
                      /\ now < last_mute[cycle.alerts[k][2]])
                /\ AtLeast(Abs(cycle.alerts[k][3]), settings.threshold_percent))
    /\ [][(/\ last.update.kind = "unmute"
           /\ last.update.args = <<SBTC>>
           /\ settings.threshold_percent = Num(100)
           /\ CheckAndAlert
           /\ CycleRan') =>
              \A i \in 1..Len(cycle'.deviations) :
                  IsExample(cycle'.deviations[i][2]) =>
                      SelectSeq(cycle'.alerts, LAMBDA a : a[1] = cycle'.deviations[i][1])
                          = << <<cycle'.deviations[i][1], SBTC, 500>> >>
          ]_vars

\* C19: the periodic check makes no request to an exchange of its own: it
\* reads prices that are already there.
C19_CycleReadsCacheOnly ==
    CycleRan => cycle.asked = <<>>

\* C21: a check cycle adds no entry to the mute registry, changes no expiry
\* and deletes only entries whose expiry is <= now; a skipped cycle (no chat
\* ids, or every exchange disabled) leaves the registry as it was.
C21_CycleOnlyPrunesExpired ==
    [][cycle'.outcome # "none" =>
        /\ \A c \in DOMAIN muted_coins' :
              c \in DOMAIN muted_coins /\ muted_coins'[c] = muted_coins[c]
        /\ \A c \in DOMAIN muted_coins \ DOMAIN muted_coins' :
              Expiry(muted_coins, c) <= now
        /\ CycleSkipped => muted_coins' = muted_coins
      ]_vars

\* a cycle has run over a list with BTC while BTC is muted
C21_Witness ==
    /\ CycleRan
    /\ SBTC \in DOMAIN muted_coins /\ now < Expiry(muted_coins, SBTC)
    /\ \E i \in 1..Len(cycle.deviations) :
          \E k \in 1..Len(cycle.deviations[i][2]) : cycle.deviations[i][2][k][1] = SBTC

SentTo(chat) == {k \in 1..Len(cycle.sent) : cycle.sent[k].chat_id = chat}

ExchangeRank(name) == CHOOSE i \in 1..Len(Exchanges) : Exchanges[i] = name

DeviationsShown == last.update.kind = "show_deviations"

\* C24: when an asked exchange has a non-empty deviation list the query
\* replies with the listing, the 10 first entries of each list at most, not
\* with the error or the no-data message; and it changes neither the
\* settings nor the mute registry.
C24_QueryShowsListing ==
    /\ []((DeviationsShown /\ \E i \in 1..Len(call.ret) : call.ret[i][2] # <<>>) =>
            /\ last.reply.kind = "listing"
            /\ last.reply.items =
                  UNION {{<<call.ret[i][1], k, call.ret[i][2][k][1], call.ret[i][2][k][4]>> :
                             k \in 1..(IF Len(call.ret[i][2]) <= 10
                                       THEN Len(call.ret[i][2]) ELSE 10)} :
                         i \in 1..Len(call.ret)})
    /\ [][last'.update.kind = "show_deviations" =>
            UNCHANGED <<settings, settings_file, muted_coins, muted_file>>]_vars

\* C29: no cycle lets an exception reach the scheduler: a failure inside the
\* cycle ends it with the error logged, and the cycle leaves the settings,
\* their file and the scheduled job as they were, so the next cycle runs.
C29_CycleNeverRaises ==
    /\ [](/\ cycle.outcome \in {"none", "no_chat_ids", "all_disabled", "done", "error"}
          /\ cycle.outcome = "error" =>
                \E i \in 1..Len(jobs) :
                    /\ jobs[i].id = "price_checker"
                    /\ jobs[i].seconds = settings.check_interval_seconds)
    /\ [][cycle'.outcome # "none" => UNCHANGED <<settings, settings_file, jobs>>]_vars

\* a cycle failed on the list it was given and ended with the error logged
C29_Witness ==
    /\ cycle.outcome = "error"
    /\ \E i \in 1..Len(cycle.deviations) : cycle.deviations[i][2] # <<>>
    /\ jobs = <<[id |-> "price_checker", seconds |-> settings.check_interval_seconds]>>

=============================================================================
